---- MODULE Spec2Model ----
(***************************************************************************)
(* ScholarWriting: the literature-review workflow (LiteratureReview.tsx),  *)
(* its report parser and the service functions it calls                    *)
(* (geminiService.ts).                                                     *)
(*                                                                         *)
(* Text is a sequence of one-character strings, so that stripping,         *)
(* trimming and delimiter scanning are computed character by character.    *)
(* A pending asynchronous call is an element of `pending`; the closure the *)
(* handler captured at the click is part of that element.                  *)
(***************************************************************************)
EXTENDS Integers, Sequences, FiniteSets, TLC

(***************************************************************************)
(* Characters and text helpers                                             *)
(***************************************************************************)
LowerChars == <<"a","b","c","d","e","f","g","h","i","j","k","l","m",
                "n","o","p","q","r","s","t","u","v","w","x","y","z">>

UpperChars == <<"A","B","C","D","E","F","G","H","I","J","K","L","M",
                "N","O","P","Q","R","S","T","U","V","W","X","Y","Z">>

\* canonical case folding used by the regex flag 'i'
Canon(c) ==
  IF \E k \in 1..26 : LowerChars[k] = c
  THEN UpperChars[CHOOSE k \in 1..26 : LowerChars[k] = c]
  ELSE c

\* characters String.prototype.trim removes (those the inputs use)
IsSpace(c) == c \in {" ", "\n", "\t", "\r"}

RECURSIVE TrimLeft(_)
TrimLeft(s) ==
  IF s = <<>> THEN <<>>
  ELSE IF IsSpace(Head(s)) THEN TrimLeft(Tail(s)) ELSE s

RECURSIVE TrimRight(_)
TrimRight(s) ==
  IF s = <<>> THEN <<>>
  ELSE IF IsSpace(s[Len(s)]) THEN TrimRight(SubSeq(s, 1, Len(s) - 1)) ELSE s

\* String.prototype.trim
Trim(s) == TrimRight(TrimLeft(s))

IsMarkdownChar(c) == c \in {"#", "*"}

\* text.replace(/[#*]/g, '')
StripMarkdown(s) == SelectSeq(s, LAMBDA c : ~IsMarkdownChar(c))

\* text.replace(/\n{3,}/g, '\n\n'): of a run of newlines only the first two stay
CollapseNewlines(s) ==
  LET Keep(i) == ~(i >= 3 /\ s[i] = "\n" /\ s[i-1] = "\n" /\ s[i-2] = "\n")
      Idx == {i \in 1..Len(s) : Keep(i)}
      RECURSIVE Build(_)
      Build(i) == IF i > Len(s) THEN <<>>
                  ELSE IF i \in Idx THEN <<s[i]>> \o Build(i + 1)
                  ELSE Build(i + 1)
  IN Build(1)

\* the JavaScript value  (x || dflt)  for an optional string x
OrElse(x, dflt) == IF x = <<>> THEN dflt ELSE x

(***************************************************************************)
(* parseReport (LiteratureReview.tsx)                                      *)
(***************************************************************************)
NotGenerated ==
  <<"C","o","n","t","e","n","t"," ","n","o","t"," ",
    "g","e","n","e","r","a","t","e","d",".">>

L_TAJUK        == <<"T","A","J","U","K">>
L_ABSTRAK      == <<"A","B","S","T","R","A","K">>
L_PENGENALAN   == <<"P","E","N","G","E","N","A","L","A","N">>
L_METODOLOGI   == <<"M","E","T","O","D","O","L","O","G","I">>
L_HASIL_KAJIAN == <<"H","A","S","I","L"," ","K","A","J","I","A","N">>
L_PERBINCANGAN == <<"P","E","R","B","I","N","C","A","N","G","A","N">>
L_RUMUSAN      == <<"R","U","M","U","S","A","N">>
L_RUJUKAN      == <<"R","U","J","U","K","A","N">>

\* the literal  \[LABEL\]  the regular expression starts with
Delimiter(label) == <<"[">> \o label \o <<"]">>

\* the pattern pat matches text at position i, ignoring case
MatchesAt(text, i, pat) ==
  /\ i + Len(pat) - 1 <= Len(text)
  /\ \A k \in 1..Len(pat) : Canon(text[i + k - 1]) = Canon(pat[k])

\* the lazy group ([\s\S]*?) ends before the first "[" at or after `from`
\* (lookahead \[ ) or at the end of the text (lookahead $)
BodyEnd(text, from) ==
  IF \E j \in from..Len(text) : text[j] = "["
  THEN (CHOOSE j \in from..Len(text) :
          /\ text[j] = "["
          /\ \A m \in from..(j - 1) : text[m] # "[") - 1
  ELSE Len(text)

\* variant: the group is returned untrimmed
getSection_NoTrim(text, label) ==
  LET pat  == Delimiter(label)
      Hits == {i \in 1..Len(text) : MatchesAt(text, i, pat)}
  IN IF Hits = {} THEN NotGenerated
     ELSE LET i    == CHOOSE h \in Hits : \A g \in Hits : h <= g
              from == i + Len(pat)
          IN SubSeq(text, from, BodyEnd(text, from))

\* variant: the last occurrence of the delimiter is taken
getSection_LastMatch(text, label) ==
  LET pat  == Delimiter(label)
      Hits == {i \in 1..Len(text) : MatchesAt(text, i, pat)}
  IN IF Hits = {} THEN NotGenerated
     ELSE LET i    == CHOOSE h \in Hits : \A g \in Hits : h >= g
              from == i + Len(pat)
          IN Trim(SubSeq(text, from, BodyEnd(text, from)))

getSection(text, label) ==
  LET pat  == Delimiter(label)
      Hits == {i \in 1..Len(text) : MatchesAt(text, i, pat)}
  IN IF Hits = {} THEN NotGenerated
     ELSE LET i    == CHOOSE h \in Hits : \A g \in Hits : h <= g
              from == i + Len(pat)
          IN Trim(SubSeq(text, from, BodyEnd(text, from)))

parseReport(text) ==
  [ tajuk        |-> getSection(text, L_TAJUK),
    abstrak      |-> getSection(text, L_ABSTRAK),
    pengenalan   |-> getSection(text, L_PENGENALAN),
    metodologi   |-> getSection(text, L_METODOLOGI),
    hasilKajian  |-> getSection(text, L_HASIL_KAJIAN),
    perbincangan |-> getSection(text, L_PERBINCANGAN),
    rumusan      |-> getSection(text, L_RUMUSAN),
    rujukan      |-> getSection(text, L_RUJUKAN) ]

(***************************************************************************)
(* Service functions (geminiService.ts).  Each is applied to the response  *)
(* of the generative collaborator; the request text plays no part in the   *)
(* state and is not modelled.  An optional value (T | null, x?: T) is a    *)
(* sequence of length 0 or 1.                                              *)
(***************************************************************************)
UntitledSource ==
  <<"U","n","t","i","t","l","e","d"," ","S","o","u","r","c","e">>

NotAvailable == <<"N","/","A">>

ErrorParsingDetails ==
  <<"E","r","r","o","r"," ","p","a","r","s","i","n","g"," ","d","e","t","a","i","l","s">>

CheckManually ==
  <<"C","h","e","c","k"," ","a","r","t","i","c","l","e"," ","l","i","n","k"," ","m","a","n","u","a","l","l","y">>

SliceCap == 50

Min(a, b) == IF a <= b THEN a ELSE b

\* response = [text, chunks]; a chunk is [uri, title], uri "" / title <<>> when absent
searchLiterature(response) ==
  LET text    == Trim(CollapseNewlines(StripMarkdown(OrElse(response.text, <<>>))))
      withUri == SelectSeq(response.chunks, LAMBDA c : c.uri # "")
      n       == Min(Len(withUri), SliceCap)
  IN [ papers |-> [i \in 1..n |->
                     [ id           |-> i - 1,
                       title        |-> StripMarkdown(OrElse(withUri[i].title, UntitledSource)),
                       url          |-> withUri[i].uri,
                       capturedData |-> <<>> ]],
       text   |-> text ]

\* response = [shape, methodology, findings, limitations, citation, relevanceScore]
\*   shape "noBraces": the text holds no {...} block, "{}" is parsed instead
\*   shape "badJson" : the {...} block is not valid JSON, JSON.parse throws
\*   shape "object"  : the block parses; absent string fields are <<>>
captureArticleDetails(response, title) ==
  IF response.shape = "badJson"
  THEN [ methodology    |-> ErrorParsingDetails,
         findings       |-> <<CheckManually>>,
         limitations    |-> NotAvailable,
         citation       |-> title,
         relevanceScore |-> 0 ]
  ELSE LET data == IF response.shape = "noBraces"
                   THEN [ methodology |-> <<>>, findings |-> <<>>, limitations |-> <<>>,
                          citation |-> <<>>, relevanceScore |-> 0 ]
                   ELSE response
       IN [ methodology    |-> StripMarkdown(OrElse(data.methodology, NotAvailable)),
            findings       |-> [k \in 1..Len(data.findings) |-> StripMarkdown(data.findings[k])],
            limitations    |-> StripMarkdown(OrElse(data.limitations, NotAvailable)),
            citation       |-> StripMarkdown(OrElse(data.citation, NotAvailable)),
            relevanceScore |-> data.relevanceScore ]

\* responseText is response.text, <<>> when absent
composeAcademicText(responseText) == StripMarkdown(OrElse(responseText, <<>>))

(***************************************************************************)
(* Responses the collaborator may give                                     *)
(***************************************************************************)
MaxChunks == 3

ChunkPool ==
  << [uri |-> "u1", title |-> <<"N","*","a">>],
     [uri |-> "",   title |-> <<"x">>],
     [uri |-> "u2", title |-> <<>>],
     [uri |-> "u3", title |-> <<"#","b">>] >>

SearchTexts == { <<>>, <<"#"," ","S","\n","\n","\n","t","*"," ">> }

SearchResponses ==
  [ text : SearchTexts, chunks : {SubSeq(ChunkPool, 1, k) : k \in 0..MaxChunks} ]

CaptureResponses ==
  { [ shape |-> "badJson", methodology |-> <<>>, findings |-> <<>>, limitations |-> <<>>,
      citation |-> <<>>, relevanceScore |-> 0 ],
    [ shape |-> "object", methodology |-> <<"*","m">>, findings |-> << <<"f","#">> >>,
      limitations |-> <<>>, citation |-> <<"c">>, relevanceScore |-> 7 ] }

SynthesisTexts == { <<"#">>, <<"T","*","h">> }

DraftTexts ==
  { <<>>,
    <<"[","T","A","J","U","K","]"," ","A","*"," ","[","a","b","s","t","r","a","k","]","#","B">>,
    <<"[","R","U","J","U","K","A","N","]"," ","r"," ","[","1","]"," ","s">> }

Queries == {"", "q"}

(***************************************************************************)
(* State of one mounted LiteratureReview component                         *)
(***************************************************************************)
VARIABLES
  query,            \* useState('')
  loading,          \* useState(false)
  capturing,        \* useState<string | null>(null): <<>> or <<paper id>>
  results,          \* useState<{papers, summary} | null>(null): <<>> or <<r>>
  selectedCapture,  \* useState<{paper, details} | null>(null)
  finalSynthesis,   \* useState('')
  reportDraft,      \* useState('')
  structuredReport, \* useMemo(() => parseReport(reportDraft), [reportDraft])
  stage,            \* useState(1)
  metrics,          \* useState({identified: 0, screened: 0, excluded: 0, included: 0})
  pending,          \* calls awaited by a handler, each with the handler's closure
  lastEvent,        \* history: the handler step taken last
  trigStage         \* history: stage in the render where the last stage action was triggered

reviewVars == << query, loading, capturing, results, selectedCapture, finalSynthesis,
                 reportDraft, structuredReport, stage, metrics, pending, lastEvent,
                 trigStage >>

(***************************************************************************)
(* One application of a pure function (parseReport, a service function's   *)
(* handling of a response) to an input                                     *)
(***************************************************************************)
VARIABLES
  fnName,           \* the function applied
  fnInput,          \* its argument: a text or a response of the collaborator
  fnOutput          \* <<>> before the call, <<value>> after it

fnVars == << fnName, fnInput, fnOutput >>

(***************************************************************************)
(* State of one mounted Composition component and one mounted DataAnalysis *)
(* component                                                               *)
(***************************************************************************)
VARIABLES
  mounted,               \* the component mounted: a Composition source, DataAnalysis or LiteratureReview
  activeSection,         \* useState<SectionType>('intro')
  sections,              \* useState<Record<SectionType, string>>({...})
  compLoading,           \* useState(false)
  prompt,                \* useState('')
  suggestions,           \* useState<string[]>([])
  citations,             \* useState<string[]>([])
  citationSearchVisible, \* useState(false)
  compPending,           \* calls awaited by a Composition handler, with its closure
  rawData,               \* DataAnalysis: useState('')
  daLoading,             \* DataAnalysis: useState(false)
  daResult,              \* DataAnalysis: useState<AnalysisResult | null>(null)
  daPending              \* calls awaited by handleAnalyze

compVars == << mounted, activeSection, sections, compLoading, prompt, suggestions,
               citations, citationSearchVisible, compPending >>

daVars == << rawData, daLoading, daResult, daPending >>

toolVars == << compVars, daVars >>

(***************************************************************************)
(* State of AppContent (App.tsx) and the browser's local storage           *)
(***************************************************************************)
VARIABLES
  view,             \* useState<AppView>(() => saved || LITERATURE_REVIEW)
  stored,           \* localStorage 'scholar_pulse_view': <<>> when absent, else <<value>>
  sharedContext     \* useState<ResearchContext | null>(null): <<>> is null

appVars == << view, stored, sharedContext >>

vars == << reviewVars, fnVars, toolVars, appVars >>

(***************************************************************************)
(* Remaining service functions (geminiService.ts).  A call resolves with a *)
(* value or rejects.                                                       *)
(***************************************************************************)
Resolved(v) == [ok |-> TRUE, value |-> v]

Rejected == [ok |-> FALSE, value |-> <<>>]

humanizeText(responseText) == StripMarkdown(OrElse(responseText, <<>>))

paraphraseText(responseText) == StripMarkdown(OrElse(responseText, <<>>))

translateText(responseText) == StripMarkdown(OrElse(responseText, <<>>))

\* response = [shape, summary, insights, recommendations]
\*   shape "noText" : response.text is undefined, .trim() throws
\*   shape "badJson": JSON.parse(jsonStr) throws
\*   shape "object" : the text parses; every string of the object goes through
\*                    JSON.stringify(result).replace(/[#*]/g, '')
analyzeData(response) ==
  IF response.shape # "object" THEN Rejected
  ELSE Resolved([ summary         |-> StripMarkdown(response.summary),
                  insights        |-> [k \in 1..Len(response.insights) |->
                                         StripMarkdown(response.insights[k])],
                  recommendations |-> [k \in 1..Len(response.recommendations) |->
                                         StripMarkdown(response.recommendations[k])] ])

\* response = [shape, items]:  return JSON.parse(response.text.trim())
getSuggestions(response) ==
  IF response.shape # "object" THEN Rejected
  ELSE Resolved(response.items)

\* text.split('\n')
RECURSIVE SplitLines(_)
SplitLines(s) ==
  IF \E i \in 1..Len(s) : s[i] = "\n"
  THEN LET i == CHOOSE j \in 1..Len(s) : s[j] = "\n" /\ \A m \in 1..(j - 1) : s[m] # "\n"
       IN <<SubSeq(s, 1, i - 1)>> \o SplitLines(SubSeq(s, i + 1, Len(s)))
  ELSE <<s>>

IsDigit(c) == c \in {"0","1","2","3","4","5","6","7","8","9"}

\* line.replace(/^[-\d\.\s]+/, '')
RECURSIVE DropListPrefix(_)
DropListPrefix(s) ==
  IF s # <<>> /\ (Head(s) = "-" \/ Head(s) = "." \/ IsDigit(Head(s)) \/ IsSpace(Head(s)))
  THEN DropListPrefix(Tail(s))
  ELSE s

MinCitationLen == 10

\* responseText is response.text, <<>> when absent
findCitations(responseText) ==
  LET lines == SelectSeq(SplitLines(OrElse(responseText, <<>>)),
                         LAMBDA l : Len(Trim(l)) > MinCitationLen)
  IN [k \in 1..Len(lines) |-> Trim(DropListPrefix(lines[k]))]

(***************************************************************************)
(* Inputs of the pure functions                                            *)
(***************************************************************************)
RECURSIVE Concats(_, _)
\* the texts made of at most n of the given pieces
Concats(pieces, n) ==
  IF n = 0 THEN {<<>>}
  ELSE LET shorter == Concats(pieces, n - 1)
       IN shorter \cup {p \o t : p \in shorter, t \in pieces}

MaxReportPieces == 4

ReportPieces ==
  { <<"[","T","A","J","U","K","]">>,
    <<"[","A","B","S","T","R","A","K","]">>,
    <<"[","t","a","j","u","k","]">>,
    <<" ","H","e","l","l","o"," ">>,
    <<" ","W","o","r","l","d">>,
    <<"[","1","]">> }

ReportTexts == Concats(ReportPieces, MaxReportPieces)

MaxRawPieces == 3

RawPieces ==
  { <<"*","*">>,
    <<"b","o","l","d">>,
    <<"#"," ">>,
    <<"h","e","a","d","i","n","g">> }

RawTexts == Concats(RawPieces, MaxRawPieces)

AnalysisResponses ==
  { [ shape |-> "badJson", summary |-> <<>>, insights |-> <<>>, recommendations |-> <<>> ],
    [ shape |-> "noText", summary |-> <<>>, insights |-> <<>>, recommendations |-> <<>> ],
    [ shape |-> "object", summary |-> <<"s","#">>, insights |-> << <<"*","i">> >>,
      recommendations |-> << <<"r">>, <<"#">> >> ] }

SuggestionResponses ==
  { [ shape |-> "badJson", items |-> <<>> ],
    [ shape |-> "noText", items |-> <<>> ],
    [ shape |-> "object", items |-> <<>> ],
    [ shape |-> "object", items |-> << <<"I","n"," ">>, <<"*","*","H","o","w">> >> ] }

CitationTexts ==
  { <<>>,
    <<"-"," ","1","."," ","S","m","i","t","h",","," ","J","."," ","(","2","0","2","0",")","."," ","A"," ","*","s","t","u","d","y","*",".","\n","#"," ","s","h","o","r","t","\n","\n","2","."," ","L","e","e",","," ","K","."," ","(","2","0","1","9",")","."," ","T","i","t","l","e",".">>,
    <<"N","o"," ","r","e","s","u","l","t","s",".">> }

CaptureShapes ==
  CaptureResponses \cup
    { [ shape |-> "noBraces", methodology |-> <<>>, findings |-> <<>>, limitations |-> <<>>,
        citation |-> <<>>, relevanceScore |-> 0 ] }

\* the titles a paper can carry when handleDeepCapture passes it on
PaperTitles ==
  UNION { { searchLiterature(r).papers[i].title : i \in 1..Len(searchLiterature(r).papers) } :
          r \in SearchResponses }

\* a pending call: its kind and, for a deep capture, the `paper` argument and
\* the `results` value of the render the click happened in
Call(kind, paper, res) == [kind |-> kind, paper |-> paper, results |-> res]

\* variant: the dependency list of useMemo is empty, the memo is never recomputed
useMemoReport_NoDeps(prev, next, memo) == memo

\* structuredReport after a render in which reportDraft went from prev to next
useMemoReport(prev, next, memo) ==
  IF next # prev THEN parseReport(next) ELSE memo

\* variant: Math.ceil in place of Math.floor
Floor5_Ceil(n, k) == (n * k + 4) \div 5

\* Math.floor(n * 0.2) is Floor5(n, 1), Math.floor(n * 0.8) is Floor5(n, 4)
Floor5(n, k) == (n * k) \div 5

ReviewInit ==
  /\ query = ""
  /\ loading = FALSE
  /\ capturing = <<>>
  /\ results = <<>>
  /\ selectedCapture = <<>>
  /\ finalSynthesis = <<>>
  /\ reportDraft = <<>>
  /\ structuredReport = parseReport(<<>>)
  /\ stage = 1
  /\ metrics = [identified |-> 0, screened |-> 0, excluded |-> 0, included |-> 0]
  /\ pending = {}
  /\ lastEvent = "init"
  /\ trigStage = 1

(***************************************************************************)
(* What the render offers                                                  *)
(***************************************************************************)
\* {stage === 1 && (<form onSubmit={handleSearch}> ...)}
SearchFormShown == stage = 1

\* {results && stage >= 3 && stage < 6 && (action bar)}
ActionBarShown == results # <<>> /\ stage >= 3 /\ stage < 6

\* {results && stage >= 3 && ( ... )}
ResultPanelShown == results # <<>> /\ stage >= 3

\* a step of the mounted LiteratureReview component
ReviewStep ==
  /\ view = "LITERATURE_REVIEW"
  /\ UNCHANGED << fnVars, toolVars, appVars >>

(***************************************************************************)
(* Handlers                                                                *)
(***************************************************************************)
\* <input value={query} onChange={(e) => setQuery(e.target.value)} />
SetQuery(q) ==
  /\ ReviewStep
  /\ SearchFormShown
  /\ query' = q
  /\ lastEvent' = "setQuery"
  /\ UNCHANGED << loading, capturing, results, selectedCapture, finalSynthesis,
                  reportDraft, structuredReport, stage, metrics, pending, trigStage >>

\* variant: the  if (!query) return;  line is missing
HandleSearch_NoEmptyCheck ==
  /\ ReviewStep
  /\ SearchFormShown
  /\ ~loading
  /\ lastEvent' = "handleSearch"
  /\ loading' = TRUE
  /\ stage' = 2
  /\ pending' = pending \cup {Call("search", <<>>, <<>>)}
  /\ trigStage' = stage
  /\ UNCHANGED << query, capturing, results, selectedCapture, finalSynthesis,
                  reportDraft, structuredReport, metrics >>

\* handleSearch up to the await
HandleSearch ==
  /\ ReviewStep
  /\ SearchFormShown
  /\ ~loading                              \* <button disabled={loading}>
  /\ lastEvent' = "handleSearch"
  /\ IF query = ""
     THEN UNCHANGED << loading, stage, pending, trigStage >>
     ELSE /\ loading' = TRUE
          /\ stage' = 2
          /\ pending' = pending \cup {Call("search", <<>>, <<>>)}
          /\ trigStage' = stage
  /\ UNCHANGED << query, capturing, results, selectedCapture, finalSynthesis,
                  reportDraft, structuredReport, metrics >>

\* handleSearch after the await resolved: try block, then finally
SearchOk(response) ==
  /\ ReviewStep
  /\ Call("search", <<>>, <<>>) \in pending
  /\ LET data == searchLiterature(response)
         n    == Len(data.papers)
     IN /\ results' = << [papers |-> data.papers, summary |-> data.text] >>
        /\ metrics' = [ identified |-> n, screened |-> n,
                        excluded |-> Floor5(n, 1), included |-> Floor5(n, 4) ]
  /\ stage' = 3
  /\ loading' = FALSE
  /\ pending' = pending \ {Call("search", <<>>, <<>>)}
  /\ lastEvent' = "searchOk"
  /\ UNCHANGED << query, capturing, selectedCapture, finalSynthesis, reportDraft,
                  structuredReport, trigStage >>

\* variant: the catch block goes back to the form with setStage(1)
SearchFail_BackToPlan ==
  /\ ReviewStep
  /\ Call("search", <<>>, <<>>) \in pending
  /\ loading' = FALSE
  /\ stage' = 1
  /\ pending' = pending \ {Call("search", <<>>, <<>>)}
  /\ lastEvent' = "searchFail"
  /\ UNCHANGED << query, capturing, results, selectedCapture, finalSynthesis,
                  reportDraft, structuredReport, metrics, trigStage >>

\* handleSearch after the await rejected: catch block, then finally
SearchFail ==
  /\ ReviewStep
  /\ Call("search", <<>>, <<>>) \in pending
  /\ loading' = FALSE
  /\ pending' = pending \ {Call("search", <<>>, <<>>)}
  /\ lastEvent' = "searchFail"
  /\ UNCHANGED << query, capturing, results, selectedCapture, finalSynthesis,
                  reportDraft, structuredReport, stage, metrics, trigStage >>

\* handleDeepCapture(paper) up to the await; the Extract / View button of row k
HandleDeepCapture(k) ==
  /\ ReviewStep
  /\ ResultPanelShown /\ stage = 3
  /\ capturing = <<>>                      \* <button disabled={!!capturing}>
  /\ k \in 1..Len(results[1].papers)
  /\ LET paper == results[1].papers[k]
     IN /\ capturing' = << paper.id >>
        /\ pending' = pending \cup {Call("capture", <<paper>>, results)}
  /\ lastEvent' = "handleDeepCapture"
  /\ UNCHANGED << query, loading, results, selectedCapture, finalSynthesis, reportDraft,
                  structuredReport, stage, metrics, trigStage >>

\* results.papers.map(p => p.id === paper.id ? { ...p, capturedData: details } : p)
AttachDetails(papers, id, details) ==
  [i \in 1..Len(papers) |->
     IF papers[i].id = id THEN [papers[i] EXCEPT !.capturedData = <<details>>]
     ELSE papers[i]]

\* handleDeepCapture after the await resolved; c.results and c.paper are the
\* values the handler closed over
CaptureOk(c, response) ==
  /\ ReviewStep
  /\ c \in pending /\ c.kind = "capture"
  /\ LET paper   == c.paper[1]
         details == captureArticleDetails(response, paper.title)
     IN /\ IF c.results # <<>>
           THEN results' = << [c.results[1] EXCEPT
                                 !.papers = AttachDetails(c.results[1].papers, paper.id, details)] >>
           ELSE UNCHANGED results
        /\ selectedCapture' = << [paper |-> paper, details |-> details] >>
  /\ capturing' = <<>>
  /\ pending' = pending \ {c}
  /\ lastEvent' = "captureOk"
  /\ UNCHANGED << query, loading, finalSynthesis, reportDraft, structuredReport,
                  stage, metrics, trigStage >>

\* variant: no finally block, capturing is not cleared on failure
CaptureFail_KeepsCapturing(c) ==
  /\ ReviewStep
  /\ c \in pending /\ c.kind = "capture"
  /\ pending' = pending \ {c}
  /\ lastEvent' = "captureFail"
  /\ UNCHANGED << query, loading, capturing, results, selectedCapture, finalSynthesis,
                  reportDraft, structuredReport, stage, metrics, trigStage >>

\* handleDeepCapture after the await rejected
CaptureFail(c) ==
  /\ ReviewStep
  /\ c \in pending /\ c.kind = "capture"
  /\ capturing' = <<>>
  /\ pending' = pending \ {c}
  /\ lastEvent' = "captureFail"
  /\ UNCHANGED << query, loading, results, selectedCapture, finalSynthesis, reportDraft,
                  structuredReport, stage, metrics, trigStage >>

\* the close button of the capture dialog: setSelectedCapture(null)
CloseCapture ==
  /\ ReviewStep
  /\ selectedCapture # <<>>
  /\ selectedCapture' = <<>>
  /\ lastEvent' = "closeCapture"
  /\ UNCHANGED << query, loading, capturing, results, finalSynthesis, reportDraft,
                  structuredReport, stage, metrics, pending, trigStage >>

\* variant: setStage(4) is called before the await, as handleSearch does with setStage(2)
HandleSynthesize_StageFirst ==
  /\ ReviewStep
  /\ ActionBarShown /\ stage = 3
  /\ ~loading
  /\ lastEvent' = "handleSynthesize"
  /\ loading' = TRUE
  /\ stage' = 4
  /\ pending' = pending \cup {Call("synthesize", <<>>, <<>>)}
  /\ trigStage' = stage
  /\ UNCHANGED << query, capturing, results, selectedCapture, finalSynthesis, reportDraft,
                  structuredReport, metrics >>

\* handleSynthesize up to the await
HandleSynthesize ==
  /\ ReviewStep
  /\ ActionBarShown /\ stage = 3
  /\ ~loading                              \* <button disabled={loading}>
  /\ lastEvent' = "handleSynthesize"
  /\ IF results = <<>>                     \* if (!results) return;
     THEN UNCHANGED << loading, pending, trigStage >>
     ELSE /\ loading' = TRUE
          /\ pending' = pending \cup {Call("synthesize", <<>>, <<>>)}
          /\ trigStage' = stage
  /\ UNCHANGED << query, capturing, results, selectedCapture, finalSynthesis, reportDraft,
                  structuredReport, stage, metrics >>

SynthesizeOk(responseText) ==
  /\ ReviewStep
  /\ Call("synthesize", <<>>, <<>>) \in pending
  /\ finalSynthesis' = composeAcademicText(responseText)
  /\ stage' = 4
  /\ loading' = FALSE
  /\ pending' = pending \ {Call("synthesize", <<>>, <<>>)}
  /\ lastEvent' = "synthesizeOk"
  /\ UNCHANGED << query, capturing, results, selectedCapture, reportDraft,
                  structuredReport, metrics, trigStage >>

SynthesizeFail ==
  /\ ReviewStep
  /\ Call("synthesize", <<>>, <<>>) \in pending
  /\ loading' = FALSE
  /\ pending' = pending \ {Call("synthesize", <<>>, <<>>)}
  /\ lastEvent' = "synthesizeFail"
  /\ UNCHANGED << query, capturing, results, selectedCapture, finalSynthesis, reportDraft,
                  structuredReport, stage, metrics, trigStage >>

\* variant: the button is rendered under  stage >= 4  instead of  stage === 4
HandleWrite_FromStage4Up ==
  /\ ReviewStep
  /\ ActionBarShown /\ stage >= 4
  /\ ~loading
  /\ loading' = TRUE
  /\ pending' = pending \cup {Call("write", <<>>, <<>>)}
  /\ trigStage' = stage
  /\ lastEvent' = "handleWrite"
  /\ UNCHANGED << query, capturing, results, selectedCapture, finalSynthesis, reportDraft,
                  structuredReport, stage, metrics >>

\* handleWrite up to the await
HandleWrite ==
  /\ ReviewStep
  /\ ActionBarShown /\ stage = 4
  /\ ~loading                              \* <button disabled={loading}>
  /\ loading' = TRUE
  /\ pending' = pending \cup {Call("write", <<>>, <<>>)}
  /\ trigStage' = stage
  /\ lastEvent' = "handleWrite"
  /\ UNCHANGED << query, capturing, results, selectedCapture, finalSynthesis, reportDraft,
                  structuredReport, stage, metrics >>

WriteOk(responseText) ==
  /\ ReviewStep
  /\ Call("write", <<>>, <<>>) \in pending
  /\ reportDraft' = composeAcademicText(responseText)
  /\ structuredReport' = useMemoReport(reportDraft, reportDraft', structuredReport)
  /\ stage' = 5
  /\ loading' = FALSE
  /\ pending' = pending \ {Call("write", <<>>, <<>>)}
  /\ lastEvent' = "writeOk"
  /\ UNCHANGED << query, capturing, results, selectedCapture, finalSynthesis,
                  metrics, trigStage >>

WriteFail ==
  /\ ReviewStep
  /\ Call("write", <<>>, <<>>) \in pending
  /\ loading' = FALSE
  /\ pending' = pending \ {Call("write", <<>>, <<>>)}
  /\ lastEvent' = "writeFail"
  /\ UNCHANGED << query, capturing, results, selectedCapture, finalSynthesis, reportDraft,
                  structuredReport, stage, metrics, trigStage >>

\* variant: the Finalize button is rendered for every stage of the action bar
HandleFinish_AnyStage ==
  /\ ReviewStep
  /\ ActionBarShown
  /\ stage' = 6
  /\ lastEvent' = "handleFinish"
  /\ UNCHANGED << query, loading, capturing, results, selectedCapture, finalSynthesis,
                  reportDraft, structuredReport, metrics, pending, trigStage >>

\* const handleFinish = () => setStage(6);  the button has no disabled attribute
HandleFinish ==
  /\ ReviewStep
  /\ ActionBarShown /\ stage = 5
  /\ stage' = 6
  /\ lastEvent' = "handleFinish"
  /\ UNCHANGED << query, loading, capturing, results, selectedCapture, finalSynthesis,
                  reportDraft, structuredReport, metrics, pending, trigStage >>

\* variant: setReportDraft('') is missing from the onClick
StartNewProject_KeepsDraft ==
  /\ ReviewStep
  /\ ResultPanelShown /\ stage = 6
  /\ stage' = 1
  /\ results' = <<>>
  /\ finalSynthesis' = <<>>
  /\ lastEvent' = "startNewProject"
  /\ UNCHANGED << query, loading, capturing, selectedCapture, reportDraft, structuredReport,
                  metrics, pending, trigStage >>

\* variant: the reset without setStage(1)
StartNewProject_KeepsStage ==
  /\ ReviewStep
  /\ ResultPanelShown /\ stage = 6
  /\ results' = <<>>
  /\ finalSynthesis' = <<>>
  /\ reportDraft' = <<>>
  /\ structuredReport' = useMemoReport(reportDraft, reportDraft', structuredReport)
  /\ lastEvent' = "startNewProject"
  /\ UNCHANGED << query, loading, capturing, selectedCapture, stage, metrics, pending,
                  trigStage >>

\* Start New Project: setStage(1); setResults(null); setFinalSynthesis(''); setReportDraft('')
StartNewProject ==
  /\ ReviewStep
  /\ ResultPanelShown /\ stage = 6
  /\ stage' = 1
  /\ results' = <<>>
  /\ finalSynthesis' = <<>>
  /\ reportDraft' = <<>>
  /\ structuredReport' = useMemoReport(reportDraft, reportDraft', structuredReport)
  /\ lastEvent' = "startNewProject"
  /\ UNCHANGED << query, loading, capturing, selectedCapture, metrics, pending, trigStage >>

Next ==
  \/ \E q \in Queries : SetQuery(q)
  \/ HandleSearch
  \/ \E r \in SearchResponses : SearchOk(r)
  \/ SearchFail
  \/ \E k \in 1..MaxChunks : HandleDeepCapture(k)
  \/ \E c \in pending, r \in CaptureResponses : CaptureOk(c, r)
  \/ \E c \in pending : CaptureFail(c)
  \/ CloseCapture
  \/ HandleSynthesize
  \/ \E t \in SynthesisTexts : SynthesizeOk(t)
  \/ SynthesizeFail
  \/ HandleWrite
  \/ \E t \in DraftTexts : WriteOk(t)
  \/ WriteFail
  \/ HandleFinish
  \/ StartNewProject

(***************************************************************************)
(* One application of a pure function                                      *)
(***************************************************************************)
\* no function is being applied
FnIdle ==
  /\ fnName = "none"
  /\ fnInput = <<>>
  /\ fnOutput = <<>>

ParseInit ==
  /\ fnName = "parseReport"
  /\ fnInput \in ReportTexts
  /\ fnOutput = <<>>

ApplyParseReport ==
  /\ fnName = "parseReport"
  /\ fnOutput = <<>>
  /\ fnOutput' = <<parseReport(fnInput)>>
  /\ UNCHANGED << fnName, fnInput, reviewVars, toolVars, appVars >>

NextParse == ApplyParseReport

TextFunctions == {"composeAcademicText", "humanizeText", "paraphraseText"}

JsonFunctions == {"captureArticleDetails", "analyzeData", "getSuggestions"}

ServiceFunctions == TextFunctions \cup JsonFunctions \cup {"searchLiterature", "findCitations"}

\* what the collaborator can answer to each service function
ServiceInputs(name) ==
  CASE name = "searchLiterature"      -> SearchResponses
    [] name = "captureArticleDetails" -> [response : CaptureShapes, title : PaperTitles]
    [] name \in TextFunctions         -> RawTexts
    [] name = "analyzeData"           -> AnalysisResponses
    [] name = "getSuggestions"        -> SuggestionResponses
    [] name = "findCitations"         -> CitationTexts

ServiceInit ==
  /\ fnName \in ServiceFunctions
  /\ fnInput \in ServiceInputs(fnName)
  /\ fnOutput = <<>>

\* the function returns: fnOutput holds how its promise settled
Return(outcome) ==
  /\ fnOutput = <<>>
  /\ fnOutput' = <<outcome>>
  /\ UNCHANGED << fnName, fnInput, reviewVars, toolVars, appVars >>

ApplySearchLiterature ==
  /\ fnName = "searchLiterature"
  /\ Return(Resolved(searchLiterature(fnInput)))

ApplyCaptureArticleDetails ==
  /\ fnName = "captureArticleDetails"
  /\ Return(Resolved(captureArticleDetails(fnInput.response, fnInput.title)))

ApplyComposeAcademicText ==
  /\ fnName = "composeAcademicText"
  /\ Return(Resolved(composeAcademicText(fnInput)))

ApplyHumanizeText ==
  /\ fnName = "humanizeText"
  /\ Return(Resolved(humanizeText(fnInput)))

ApplyParaphraseText ==
  /\ fnName = "paraphraseText"
  /\ Return(Resolved(paraphraseText(fnInput)))

ApplyAnalyzeData ==
  /\ fnName = "analyzeData"
  /\ Return(analyzeData(fnInput))

ApplyGetSuggestions ==
  /\ fnName = "getSuggestions"
  /\ Return(getSuggestions(fnInput))

ApplyFindCitations ==
  /\ fnName = "findCitations"
  /\ Return(Resolved(findCitations(fnInput)))

NextService ==
  \/ ApplySearchLiterature
  \/ ApplyCaptureArticleDetails
  \/ ApplyComposeAcademicText
  \/ ApplyHumanizeText
  \/ ApplyParaphraseText
  \/ ApplyAnalyzeData
  \/ ApplyGetSuggestions
  \/ ApplyFindCitations

(***************************************************************************)
(* Composition (unnamed/part_000, unnamed/part_001) and DataAnalysis       *)
(* (DataAnalysis.tsx).  The component is mounted without initialContext;   *)
(* the caret of the editor is collapsed, so a tool acts on the whole text. *)
(***************************************************************************)
CompositionSources == {"part_000", "part_001"}

SectionTypes == {"intro", "lr"}

InitialSections == [k \in SectionTypes |-> <<>>]

\* texts the user types into the editor
TypedTexts == { <<>>, <<"a">> }

Prompts == {"", "p"}

ComposeTexts == { <<"*","x">> }

ToolTexts == { <<"h","#">> }

ToolSuggestionResponses == { [ shape |-> "object", items |-> << <<"*","S">> >> ] }

ToolCitationTexts == { <<"L","e","e",","," ","K","."," ","(","2","0","1","9",")",".">> }

RawDataTexts == {"", "d"}

\* the appending handlers are followed while the text is at most this long
MaxSectionLen == 1

\* Composition calls outstanding at once
MaxOutstanding == 2

\* the tools of the toolbar
Tools == [ part_000 |-> {"humanize", "paraphrase"},
           part_001 |-> {"humanize", "paraphrase", "translate"} ]

\* a pending Composition call with what its handler uses of its closure once the
\* call has settled: the section it updates and the text it appends to
CompCall(kind, section, content) == [kind |-> kind, section |-> section, content |-> content]

\* the useState initial values of Composition and DataAnalysis
ToolsFresh ==
  /\ activeSection = "intro"
  /\ sections = InitialSections
  /\ compLoading = FALSE
  /\ prompt = ""
  /\ suggestions = <<>>
  /\ citations = <<>>
  /\ citationSearchVisible = FALSE
  /\ compPending = {}
  /\ rawData = ""
  /\ daLoading = FALSE
  /\ daResult = <<>>
  /\ daPending = {}

\* renderContent: the component rendered for a view; the Composition of the
\* build is one of the two Composition sources
ComponentsFor(v) ==
  CASE v = "COMPOSITION"   -> CompositionSources
    [] v = "DATA_ANALYSIS" -> {"DataAnalysis"}
    [] OTHER               -> {"LiteratureReview"}

\* a tool component has just been mounted
ToolsInit ==
  /\ mounted \in CompositionSources \cup {"DataAnalysis"}
  /\ ToolsFresh
  /\ view = (IF mounted = "DataAnalysis" THEN "DATA_ANALYSIS" ELSE "COMPOSITION")
  /\ stored = << view >>
  /\ sharedContext = <<>>

\* the application shows the literature review, no tool component is mounted
ToolsIdle ==
  /\ mounted = "LiteratureReview"
  /\ ToolsFresh
  /\ view = "LITERATURE_REVIEW"
  /\ stored = << view >>
  /\ sharedContext = <<>>

\* setSections(prev => ({ ...prev, [activeSection]: val })) with the handler's activeSection
handleUpdateSection(prev, section, val) == [prev EXCEPT ![section] = val]

\* currentContent + (currentContent ? sep : '') + added
AppendWith(content, sep, added) == content \o (IF content # <<>> THEN sep ELSE <<>>) \o added

\* the text handleCompose stores when its call resolves with `response`
Composed(source, content, response) ==
  IF source = "part_000"
  THEN AppendWith(content, <<"\n","\n">>, response)
  ELSE content \o <<"\n","\n">> \o response

\* cite.split(',')[0].trim()
FirstField(cite) ==
  IF \E i \in 1..Len(cite) : cite[i] = ","
  THEN Trim(SubSeq(cite, 1, (CHOOSE i \in 1..Len(cite) :
                               cite[i] = "," /\ \A m \in 1..(i - 1) : cite[m] # ",") - 1))
  ELSE Trim(cite)

\* cite.match(/\d{4}/)?.[0] || 'n.d.'
FirstYear(cite) ==
  LET Hits == {i \in 1..(Len(cite) - 3) : \A k \in 0..3 : IsDigit(cite[i + k])}
  IN IF Hits = {} THEN <<"n",".","d",".">>
     ELSE LET i == CHOOSE h \in Hits : \A g \in Hits : h <= g
          IN SubSeq(cite, i, i + 3)

\* the text the citation dialog inserts for `cite`
InsertedCitation(source, cite) ==
  IF source = "part_000"
  THEN <<"(">> \o FirstField(cite) \o <<","," ">> \o FirstYear(cite) \o <<")">>
  ELSE cite

CompositionMounted == mounted \in CompositionSources

\* a step of the mounted Composition component
CompStep ==
  /\ CompositionMounted
  /\ UNCHANGED << mounted, daVars, reviewVars, fnVars, appVars >>

SetActiveSection(key) ==
  /\ CompStep
  /\ activeSection' = key
  /\ UNCHANGED << sections, compLoading, prompt, suggestions, citations,
                  citationSearchVisible, compPending >>

\* the editor's onChange
TypeSection(val) ==
  /\ CompStep
  /\ sections' = handleUpdateSection(sections, activeSection, val)
  /\ UNCHANGED << activeSection, compLoading, prompt, suggestions, citations,
                  citationSearchVisible, compPending >>

SetPrompt(p) ==
  /\ CompStep
  /\ prompt' = p
  /\ UNCHANGED << activeSection, sections, compLoading, suggestions, citations,
                  citationSearchVisible, compPending >>

HandleCompose ==
  /\ CompStep
  /\ ~(compLoading \/ prompt = "")
  /\ Len(sections[activeSection]) <= MaxSectionLen
  /\ Cardinality(compPending) < MaxOutstanding
  /\ compLoading' = TRUE
  /\ compPending' = compPending \cup {CompCall("compose", activeSection, sections[activeSection])}
  /\ UNCHANGED << activeSection, sections, prompt, suggestions, citations,
                  citationSearchVisible >>

ComposeOk(c, responseText) ==
  /\ CompStep
  /\ c \in compPending /\ c.kind = "compose"
  /\ sections' = handleUpdateSection(sections, c.section,
                    Composed(mounted, c.content, composeAcademicText(responseText)))
  /\ prompt' = ""
  /\ compLoading' = FALSE
  /\ compPending' = compPending \ {c}
  /\ UNCHANGED << activeSection, suggestions, citations, citationSearchVisible >>

ComposeFail(c) ==
  /\ CompStep
  /\ c \in compPending /\ c.kind = "compose"
  /\ compLoading' = FALSE
  /\ compPending' = compPending \ {c}
  /\ UNCHANGED << activeSection, sections, prompt, suggestions, citations,
                  citationSearchVisible >>

HandleToolAction(action) ==
  /\ CompStep
  /\ action \in Tools[mounted]
  /\ ~compLoading
  /\ sections[activeSection] # <<>>
  /\ Cardinality(compPending) < MaxOutstanding
  /\ compLoading' = TRUE
  /\ compPending' = compPending \cup {CompCall(action, activeSection, <<>>)}
  /\ UNCHANGED << activeSection, sections, prompt, suggestions, citations,
                  citationSearchVisible >>

ToolOk(c, responseText) ==
  /\ CompStep
  /\ c \in compPending /\ c.kind \in {"humanize", "paraphrase", "translate"}
  /\ LET result == CASE c.kind = "humanize"   -> humanizeText(responseText)
                     [] c.kind = "paraphrase" -> paraphraseText(responseText)
                     [] c.kind = "translate"  -> translateText(responseText)
     IN sections' = handleUpdateSection(sections, c.section, result)
  /\ compLoading' = FALSE
  /\ compPending' = compPending \ {c}
  /\ UNCHANGED << activeSection, prompt, suggestions, citations, citationSearchVisible >>

ToolFail(c) ==
  /\ CompStep
  /\ c \in compPending /\ c.kind \in {"humanize", "paraphrase", "translate"}
  /\ compLoading' = FALSE
  /\ compPending' = compPending \ {c}
  /\ UNCHANGED << activeSection, sections, prompt, suggestions, citations,
                  citationSearchVisible >>

\* keyword = (the target text or selection) || prompt || initialContext?.topic || ""
Keyword ==
  IF mounted = "part_001" /\ sections[activeSection] # <<>> THEN "text"
  ELSE prompt

HandleSearchCitation ==
  /\ CompStep
  /\ ~compLoading
  /\ Keyword # ""
  /\ Cardinality(compPending) < MaxOutstanding
  /\ compLoading' = TRUE
  /\ citationSearchVisible' = TRUE
  /\ compPending' = compPending \cup {CompCall("citation", activeSection, <<>>)}
  /\ UNCHANGED << activeSection, sections, prompt, suggestions, citations >>

CitationOk(c, responseText) ==
  /\ CompStep
  /\ c \in compPending /\ c.kind = "citation"
  /\ citations' = findCitations(responseText)
  /\ compLoading' = FALSE
  /\ compPending' = compPending \ {c}
  /\ UNCHANGED << activeSection, sections, prompt, suggestions, citationSearchVisible >>

CitationFail(c) ==
  /\ CompStep
  /\ c \in compPending /\ c.kind = "citation"
  /\ compLoading' = FALSE
  /\ compPending' = compPending \ {c}
  /\ UNCHANGED << activeSection, sections, prompt, suggestions, citations,
                  citationSearchVisible >>

CloseCitationSearch ==
  /\ CompStep
  /\ citationSearchVisible
  /\ citationSearchVisible' = FALSE
  /\ UNCHANGED << activeSection, sections, compLoading, prompt, suggestions, citations,
                  compPending >>

\* "Insert" of the citation dialog; part_000 shows the list only while not loading
InsertCitation(k) ==
  /\ CompStep
  /\ citationSearchVisible
  /\ mounted = "part_000" => ~compLoading
  /\ k \in 1..Len(citations)
  /\ Len(sections[activeSection]) <= MaxSectionLen
  /\ sections' = handleUpdateSection(sections, activeSection,
                    AppendWith(sections[activeSection], <<" ">>,
                               InsertedCitation(mounted, citations[k])))
  /\ citationSearchVisible' = FALSE
  /\ UNCHANGED << activeSection, compLoading, prompt, suggestions, citations, compPending >>

\* part_000: fetchSuggestions ("Refresh"); part_001: "Generate Sentence Starters"
FetchSuggestions ==
  /\ CompStep
  /\ Cardinality(compPending) < MaxOutstanding
  /\ compLoading' = TRUE
  /\ compPending' = compPending \cup {CompCall("suggestions", activeSection, <<>>)}
  /\ UNCHANGED << activeSection, sections, prompt, suggestions, citations,
                  citationSearchVisible >>

SuggestionsOk(c, response) ==
  /\ CompStep
  /\ c \in compPending /\ c.kind = "suggestions"
  /\ getSuggestions(response).ok
  /\ suggestions' = getSuggestions(response).value
  /\ compLoading' = FALSE
  /\ compPending' = compPending \ {c}
  /\ UNCHANGED << activeSection, sections, prompt, citations, citationSearchVisible >>

\* getSuggestions rejects (the request fails or JSON.parse throws): part_000
\* catches it and clears loading in finally, part_001 awaits outside any try
SuggestionsFail(c) ==
  /\ CompStep
  /\ c \in compPending /\ c.kind = "suggestions"
  /\ compLoading' = IF mounted = "part_000" THEN FALSE ELSE compLoading
  /\ compPending' = compPending \ {c}
  /\ UNCHANGED << activeSection, sections, prompt, suggestions, citations,
                  citationSearchVisible >>

\* part_000: useSuggestion; part_001: the suggestion button's onClick
UseSuggestion(k) ==
  /\ CompStep
  /\ k \in 1..Len(suggestions)
  /\ Len(sections[activeSection]) <= MaxSectionLen
  /\ sections' = handleUpdateSection(sections, activeSection,
                    AppendWith(sections[activeSection], <<" ">>, suggestions[k]))
  /\ UNCHANGED << activeSection, compLoading, prompt, suggestions, citations,
                  citationSearchVisible, compPending >>

\* a step of the mounted DataAnalysis component
DaStep ==
  /\ mounted = "DataAnalysis"
  /\ UNCHANGED << compVars, reviewVars, fnVars, appVars >>

SetRawData(d) ==
  /\ DaStep
  /\ rawData' = d
  /\ UNCHANGED << daLoading, daResult, daPending >>

HandleAnalyze ==
  /\ DaStep
  /\ ~(daLoading \/ rawData = "")
  /\ daLoading' = TRUE
  /\ daPending' = daPending \cup {[kind |-> "analyze"]}
  /\ UNCHANGED << rawData, daResult >>

AnalyzeOk(c, response) ==
  /\ DaStep
  /\ c \in daPending
  /\ analyzeData(response).ok
  /\ daResult' = <<analyzeData(response).value>>
  /\ daLoading' = FALSE
  /\ daPending' = daPending \ {c}
  /\ UNCHANGED rawData

\* analyzeData rejects: the request fails or JSON.parse throws
AnalyzeFail(c) ==
  /\ DaStep
  /\ c \in daPending
  /\ daLoading' = FALSE
  /\ daPending' = daPending \ {c}
  /\ UNCHANGED << rawData, daResult >>

NextTools ==
  \/ \E key \in SectionTypes : SetActiveSection(key)
  \/ \E val \in TypedTexts : TypeSection(val)
  \/ \E p \in Prompts : SetPrompt(p)
  \/ HandleCompose
  \/ \E c \in compPending, t \in ComposeTexts : ComposeOk(c, t)
  \/ \E c \in compPending : ComposeFail(c)
  \/ \E action \in {"humanize", "paraphrase", "translate"} : HandleToolAction(action)
  \/ \E c \in compPending, t \in ToolTexts : ToolOk(c, t)
  \/ \E c \in compPending : ToolFail(c)
  \/ HandleSearchCitation
  \/ \E c \in compPending, t \in ToolCitationTexts : CitationOk(c, t)
  \/ \E c \in compPending : CitationFail(c)
  \/ CloseCitationSearch
  \/ \E k \in 1..Len(citations) : InsertCitation(k)
  \/ FetchSuggestions
  \/ \E c \in compPending, r \in ToolSuggestionResponses : SuggestionsOk(c, r)
  \/ \E c \in compPending : SuggestionsFail(c)
  \/ \E k \in 1..Len(suggestions) : UseSuggestion(k)
  \/ \E d \in RawDataTexts : SetRawData(d)
  \/ HandleAnalyze
  \/ \E c \in daPending, r \in AnalysisResponses : AnalyzeOk(c, r)
  \/ \E c \in daPending : AnalyzeFail(c)

(***************************************************************************)
(* AppContent (App.tsx): the active view, its persistence and the shared   *)
(* research context.  renderContent renders one component per view, so a   *)
(* change of view unmounts the component shown and mounts the next one     *)
(* with its useState initial values; a call still awaited by the unmounted *)
(* component settles without effect.                                       *)
(***************************************************************************)
AppViews == {"LITERATURE_REVIEW", "COMPOSITION", "DATA_ANALYSIS"}

\* what localStorage.getItem('scholar_pulse_view') can return at start-up
SavedValues == {<<>>} \cup { <<v>> : v \in AppViews }

ReviewTypes == {"Systematic Literature Review", "Scoping Review"}

UserReferences == {"", "r"}

\* variant: the stored value is ignored at start-up
initialView_Default(saved) == "LITERATURE_REVIEW"

\* (saved as AppView) || AppView.LITERATURE_REVIEW
initialView(saved) ==
  IF saved # <<>> /\ saved[1] # "" THEN saved[1] ELSE "LITERATURE_REVIEW"

\* variant: the new context replaces the previous one, ...prev is missing
handleTransferLR_Replace(prev, context) ==
  << [ topic          |-> context.topic,
       reviewType     |-> context.reviewType,
       synthesis      |-> context.synthesis,
       draft          |-> context.draft,
       references     |-> context.references,
       analysisResult |-> <<>> ] >>

\* prev => ({ ...prev, ...context, topic: context.topic || prev?.topic || '' })
handleTransferLR(prev, context) ==
  << [ topic          |-> IF context.topic # "" THEN context.topic
                          ELSE IF prev # <<>> THEN prev[1].topic ELSE "",
       reviewType     |-> context.reviewType,
       synthesis      |-> context.synthesis,
       draft          |-> context.draft,
       references     |-> context.references,
       analysisResult |-> IF prev # <<>> THEN prev[1].analysisResult ELSE <<>> ] >>

\* prev => ({ ...prev, topic: prev?.topic || 'Research Data Analysis',
\*            analysisResult: result, reviewType: prev?.reviewType || '', ... })
handleTransferAnalysis(prev, result) ==
  << [ topic          |-> IF prev # <<>> /\ prev[1].topic # "" THEN prev[1].topic
                          ELSE "Research Data Analysis",
       analysisResult |-> << result >>,
       reviewType     |-> IF prev # <<>> THEN prev[1].reviewType ELSE "",
       synthesis      |-> IF prev # <<>> THEN prev[1].synthesis ELSE <<>>,
       draft          |-> IF prev # <<>> THEN prev[1].draft ELSE <<>>,
       references     |-> IF prev # <<>> THEN prev[1].references ELSE "" ] >>

\* Composition's effect on initialContext:
\*   lr: initialContext.draft || initialContext.synthesis || prev.lr
contextSections(context) ==
  IF context = <<>> THEN InitialSections
  ELSE [InitialSections EXCEPT
          !["lr"] = IF context[1].draft # <<>> THEN context[1].draft
                    ELSE context[1].synthesis]

\* renderContent after the view became v: the component of v is mounted with
\* its initial state, the state of the component shown before is gone
Mount(v, context) ==
  /\ query' = ""
  /\ loading' = FALSE
  /\ capturing' = <<>>
  /\ results' = <<>>
  /\ selectedCapture' = <<>>
  /\ finalSynthesis' = <<>>
  /\ reportDraft' = <<>>
  /\ structuredReport' = parseReport(<<>>)
  /\ stage' = 1
  /\ metrics' = [identified |-> 0, screened |-> 0, excluded |-> 0, included |-> 0]
  /\ pending' = {}
  /\ lastEvent' = "init"
  /\ trigStage' = 1
  /\ mounted' \in ComponentsFor(v)
  /\ activeSection' = "intro"
  /\ sections' = IF v = "COMPOSITION" THEN contextSections(context) ELSE InitialSections
  /\ compLoading' = FALSE
  /\ prompt' = ""
  /\ suggestions' = <<>>
  /\ citations' = <<>>
  /\ citationSearchVisible' = FALSE
  /\ compPending' = {}
  /\ rawData' = ""
  /\ daLoading' = FALSE
  /\ daResult' = <<>>
  /\ daPending' = {}
  /\ UNCHANGED fnVars

\* setView(v) followed by the effect localStorage.setItem('scholar_pulse_view', view)
ShowView(v, context) ==
  /\ view' = v
  /\ stored' = << v >>
  /\ sharedContext' = context
  /\ Mount(v, context)

\* Sidebar: onClick={() => setView(item.id)}; setting the current view again
\* changes nothing
SetView(v) ==
  /\ v \in AppViews \ {view}
  /\ ShowView(v, sharedContext)

\* LiteratureReview.handleTransferClick -> App.handleTransferLR; the button is in
\* the stage-6 panel; reviewType and userReferences are what the user chose on
\* the search form
HandleTransferClick(reviewType, userReferences) ==
  /\ view = "LITERATURE_REVIEW"
  /\ ResultPanelShown /\ stage = 6
  /\ ShowView("COMPOSITION",
              handleTransferLR(sharedContext,
                               [ topic      |-> query,
                                 reviewType |-> reviewType,
                                 synthesis  |-> finalSynthesis,
                                 draft      |-> reportDraft,
                                 references |-> userReferences ]))

\* DataAnalysis.handleTransfer -> App.handleTransferAnalysis
HandleTransfer ==
  /\ view = "DATA_ANALYSIS"
  /\ mounted = "DataAnalysis"
  /\ daResult # <<>>
  /\ ShowView("COMPOSITION", handleTransferAnalysis(sharedContext, daResult[1]))

\* the page is loaded again: every useState starts over, the view comes from
\* the stored key
Reload ==
  /\ ShowView(initialView(stored), <<>>)

NextApp ==
  \/ \E q \in Queries : SetQuery(q)
  \/ HandleSearch
  \/ \E r \in {x \in SearchResponses : x.text # <<>> /\ Len(x.chunks) = 1} : SearchOk(r)
  \/ SearchFail
  \/ \E k \in 1..MaxChunks : HandleDeepCapture(k)
  \/ \E c \in pending, r \in {x \in CaptureResponses : x.shape = "object"} : CaptureOk(c, r)
  \/ \E c \in pending : CaptureFail(c)
  \/ CloseCapture
  \/ HandleSynthesize
  \/ \E t \in {x \in SynthesisTexts : Len(x) > 1} : SynthesizeOk(t)
  \/ SynthesizeFail
  \/ HandleWrite
  \/ \E t \in {x \in DraftTexts : Len(x) > 1 /\ x[2] = "T"} : WriteOk(t)
  \/ WriteFail
  \/ HandleFinish
  \/ StartNewProject
  \/ \E rt \in ReviewTypes, refs \in UserReferences : HandleTransferClick(rt, refs)
  \/ \E d \in RawDataTexts : SetRawData(d)
  \/ HandleAnalyze
  \/ \E c \in daPending, r \in AnalysisResponses : AnalyzeOk(c, r)
  \/ \E c \in daPending : AnalyzeFail(c)
  \/ HandleTransfer
  \/ \E v \in AppViews : SetView(v)
  \/ Reload

\* the review component alone: the view stays on the literature review
Init == ReviewInit /\ FnIdle /\ ToolsIdle

Spec == Init /\ [][Next]_vars

\* parseReport applied to a text
InitParse == ReviewInit /\ ParseInit /\ ToolsIdle

SpecParse == InitParse /\ [][NextParse]_vars

\* a service function applied to an answer of the collaborator
InitService == ReviewInit /\ ServiceInit /\ ToolsIdle

SpecService == InitService /\ [][NextService]_vars

\* a mounted Composition or DataAnalysis component
InitTools == ReviewInit /\ FnIdle /\ ToolsInit

SpecTools == InitTools /\ [][NextTools]_vars

\* the application after start-up with a stored view or none
InitApp ==
  /\ ReviewInit /\ FnIdle /\ ToolsFresh
  /\ \E saved \in SavedValues : view = initialView(saved)
  /\ stored = << view >>
  /\ sharedContext = <<>>
  /\ mounted \in ComponentsFor(view)

SpecApp == InitApp /\ [][NextApp]_vars

(***************************************************************************)
(* Properties                                                              *)
(***************************************************************************)
FailEvents == {"searchFail", "synthesizeFail", "writeFail"}

\* the pending calls that set the loading flag
StageCalls == {c \in pending : c.kind # "capture"}

\* the values setResults receives from a search that has just resolved
FreshResults ==
  { << [papers |-> searchLiterature(r).papers, summary |-> searchLiterature(r).text] >> :
      r \in SearchResponses }

PaperIds(res) == [i \in 1..Len(res[1].papers) |-> res[1].papers[i].id]

\* C1: stage is always in 1..6, and every step other than Start New Project
\* (each handler, up to its await and after it, successful or failed) leaves
\* stage equal or larger.
C1_StageMonotone ==
  /\ [](stage \in 1..6)
  /\ [][lastEvent' # "startNewProject" => stage' >= stage]_vars

C1_Witness == lastEvent = "handleFinish" /\ stage = 6

\* C2: after a failed search, synthesis or draft call, stage equals the stage
\* in which the action was triggered and loading is false.
C2_FailureKeepsStage ==
  lastEvent \in FailEvents => (stage = trigStage /\ loading = FALSE)

\* C3: at most one external call is outstanding at any time.
C3_OneCallOutstanding == Cardinality(pending) <= 1

\* C4: Start New Project, taken at stage 6, yields stage 1, no results, an
\* empty synthesis and an empty draft.
C4_ResetClears ==
  [][(lastEvent' = "startNewProject" /\ stage = 6) =>
       /\ stage' = 1
       /\ results' = <<>>
       /\ finalSynthesis' = <<>>
       /\ reportDraft' = <<>>]_vars

C4_Witness == lastEvent = "startNewProject" /\ metrics.identified > 0 /\ pending = {}

\* C5: submitting the search form with an empty query changes no state and
\* issues no call.
C5_EmptyQueryNoOp ==
  [][(lastEvent' = "handleSearch" /\ query = "") =>
       UNCHANGED << stage, loading, results, metrics, pending, query, capturing,
                    selectedCapture, finalSynthesis, reportDraft >>]_vars

C5_Witness == lastEvent = "handleSearch" /\ query = "" /\ stage = 1 /\ ~loading

\* C6: every change of stage is a forward step by one or the reset 6 -> 1, and
\* the reset is taken only at stage 6.
C6_StageSteps ==
  [][/\ stage' # stage =>
          \/ stage < 6 /\ stage' = stage + 1
          \/ stage = 6 /\ stage' = 1 /\ lastEvent' = "startNewProject"
     /\ lastEvent' = "startNewProject" => stage = 6]_vars

C6_Witness == stage = 2 /\ metrics.identified > 0 /\ loading

\* C7: while a stage call is outstanding stage changes only in the step that
\* resolves it successfully; stage becomes 3, 4 or 5 only in that step, and the
\* step stores the call's result.
C7_AdvanceOnResolve ==
  [][/\ (StageCalls # {} /\ stage' # stage) =>
          (lastEvent' \in {"searchOk", "synthesizeOk", "writeOk"} /\ StageCalls' = {})
     /\ (stage' # stage /\ stage' = 3) =>
          /\ lastEvent' = "searchOk" /\ Call("search", <<>>, <<>>) \in pending
          /\ results' \in FreshResults
     /\ (stage' # stage /\ stage' = 4) =>
          /\ lastEvent' = "synthesizeOk" /\ Call("synthesize", <<>>, <<>>) \in pending
          /\ finalSynthesis' \in {composeAcademicText(t) : t \in SynthesisTexts}
     /\ (stage' # stage /\ stage' = 5) =>
          /\ lastEvent' = "writeOk" /\ Call("write", <<>>, <<>>) \in pending
          /\ reportDraft' \in {composeAcademicText(t) : t \in DraftTexts}]_vars

C7_Witness == lastEvent = "writeOk" /\ stage = 5 /\ reportDraft # <<>>

\* C8: search is submitted only at stage 1, synthesis is started only at stage
\* 3 with results present, the draft only at stage 4, finalize only at stage 5.
C8_ActionsGated ==
  [][/\ lastEvent' = "handleSearch" => stage = 1
     /\ Call("search", <<>>, <<>>) \in pending' \ pending => stage = 1
     /\ lastEvent' = "handleSynthesize" => stage = 3 /\ results # <<>>
     /\ Call("synthesize", <<>>, <<>>) \in pending' \ pending => stage = 3 /\ results # <<>>
     /\ lastEvent' = "handleWrite" => stage = 4
     /\ Call("write", <<>>, <<>>) \in pending' \ pending => stage = 4
     /\ lastEvent' = "handleFinish" => stage = 5]_vars

C8_Witness == lastEvent = "handleWrite" /\ stage = 4 /\ loading

\* C9: between a successful search and the next reset the sequence of paper
\* ids never changes, and a paper changes only in its capturedData, attached by
\* a deep capture.
C9_PapersStable ==
  [][(results # <<>> /\ lastEvent' \notin {"startNewProject", "searchOk"}) =>
       /\ results' # <<>>
       /\ PaperIds(results') = PaperIds(results)
       /\ \A i \in 1..Len(results[1].papers) :
            /\ [results'[1].papers[i] EXCEPT !.capturedData = <<>>]
                 = [results[1].papers[i] EXCEPT !.capturedData = <<>>]
            /\ results'[1].papers[i] # results[1].papers[i] => lastEvent' = "captureOk"]_vars

\* C10: the structured report always equals parseReport(reportDraft).
C10_ReportDerived == structuredReport = parseReport(reportDraft)

C10_Witness ==
  lastEvent = "writeOk" /\ structuredReport.tajuk = <<"A">> /\ structuredReport.abstrak = <<"B">>

(***************************************************************************)
(* The report parser                                                       *)
(***************************************************************************)
\* the label each field of the record is read from
ReportLabels ==
  [ tajuk        |-> L_TAJUK,
    abstrak      |-> L_ABSTRAK,
    pengenalan   |-> L_PENGENALAN,
    metodologi   |-> L_METODOLOGI,
    hasilKajian  |-> L_HASIL_KAJIAN,
    perbincangan |-> L_PERBINCANGAN,
    rumusan      |-> L_RUMUSAN,
    rujukan      |-> L_RUJUKAN ]

ReportFields == DOMAIN ReportLabels

FoldCase(s) == [k \in 1..Len(s) |-> Canon(s[k])]

\* s begins with [label], in any case
StartsWithLabel(s, label) ==
  /\ Len(s) >= Len(label) + 2
  /\ s[1] = "["
  /\ FoldCase(SubSeq(s, 1, Len(label) + 2)) = FoldCase(<<"[">> \o label \o <<"]">>)

RECURSIVE RestAfter(_, _)
\* <<the text after the first [label]>>, or <<>> when the label does not occur
RestAfter(s, label) ==
  IF s = <<>> THEN <<>>
  ELSE IF StartsWithLabel(s, label) THEN <<SubSeq(s, Len(label) + 3, Len(s))>>
  ELSE RestAfter(Tail(s), label)

RECURSIVE UpToBracket(_)
\* the text before the first "["
UpToBracket(s) ==
  IF s = <<>> \/ Head(s) = "[" THEN <<>>
  ELSE <<Head(s)>> \o UpToBracket(Tail(s))

RECURSIVE UpToLabel(_)
\* the text before the first of the eight [LABEL] delimiters
UpToLabel(s) ==
  IF s = <<>> \/ \E f \in ReportFields : StartsWithLabel(s, ReportLabels[f]) THEN <<>>
  ELSE <<Head(s)>> \o UpToLabel(Tail(s))

\* t is body without the whitespace around it
IsTrimOf(t, body) ==
  /\ t # <<>> => ~IsSpace(t[1]) /\ ~IsSpace(t[Len(t)])
  /\ \E i \in 1..(Len(body) + 1) :
       /\ i + Len(t) - 1 <= Len(body)
       /\ SubSeq(body, i, i + Len(t) - 1) = t
       /\ \A k \in 1..Len(body) : (k < i \/ k >= i + Len(t)) => IsSpace(body[k])

ExampleReport == <<"[","T","A","J","U","K","]"," ","H","e","l","l","o"," ","[","A","B","S","T","R","A","K","]"," ","W","o","r","l","d">>

Hello == <<"H","e","l","l","o">>

World == <<"W","o","r","l","d">>

Parsed == fnName = "parseReport" /\ fnOutput # <<>>

\* C11: parseReport returns a record of the eight fields for every text; a field
\* is the sentinel when its label does not occur and the trimmed body following
\* the label when it does; the empty text gives eight sentinels and
\* "[TAJUK] Hello [ABSTRAK] World" gives tajuk "Hello", abstrak "World" and six
\* sentinels.
C11_ParseContract ==
  Parsed =>
    LET r == fnOutput[1]
    IN /\ DOMAIN r = ReportFields
       /\ \A f \in ReportFields :
            LET rest == RestAfter(fnInput, ReportLabels[f])
            IN IF rest = <<>> THEN r[f] = NotGenerated
               ELSE IsTrimOf(r[f], UpToBracket(rest[1]))
       /\ fnInput = <<>> => \A f \in ReportFields : r[f] = NotGenerated
       /\ fnInput = ExampleReport =>
            /\ r.tajuk = Hello
            /\ r.abstrak = World
            /\ \A f \in ReportFields \ {"tajuk", "abstrak"} : r[f] = NotGenerated

C11_Witness ==
  Parsed /\ fnInput = ExampleReport /\ fnOutput[1].tajuk = Hello /\ fnOutput[1].abstrak = World

\* C12: the body of a label runs up to the next of the eight [LABEL] delimiters
\* or the end of the text; a "[" that starts none of the eight labels does not
\* end it.
C12_BodyUntilNextLabel ==
  Parsed =>
    \A f \in ReportFields :
      LET rest == RestAfter(fnInput, ReportLabels[f])
      IN rest # <<>> => IsTrimOf(fnOutput[1][f], UpToLabel(rest[1]))

\* the places where [label] occurs
Occurrences(text, label) ==
  {i \in 1..Len(text) : StartsWithLabel(SubSeq(text, i, Len(text)), label)}

\* C13: a label that occurs in the text, once or several times and wherever the
\* other labels are, has the body of its first occurrence; cutting the text
\* before any later occurrence leaves the field the same.
C13_FirstOccurrenceWins ==
  Parsed =>
    \A f \in ReportFields :
      LET label == ReportLabels[f]
          occ   == Occurrences(fnInput, label)
      IN occ # {} =>
           LET first == CHOOSE i \in occ : \A j \in occ : i <= j
           IN /\ IsTrimOf(fnOutput[1][f],
                          UpToBracket(SubSeq(fnInput, first + Len(label) + 2, Len(fnInput))))
              /\ \A j \in occ \ {first} :
                   getSection(SubSeq(fnInput, 1, j - 1), label) = fnOutput[1][f]

\* ABSTRAK before TAJUK, and TAJUK twice with different bodies
C13_Witness ==
  /\ Parsed
  /\ fnInput = <<"[","A","B","S","T","R","A","K","]","[","T","A","J","U","K","]"," ","H","e","l","l","o"," ","[","t","a","j","u","k","]">>
  /\ fnOutput[1].tajuk = Hello
  /\ fnOutput[1].abstrak = <<>>

(***************************************************************************)
(* The service functions                                                   *)
(***************************************************************************)
RECURSIVE WithoutMarkers(_)
\* s without its "#" and "*"
WithoutMarkers(s) ==
  IF s = <<>> THEN <<>>
  ELSE IF Head(s) = "#" \/ Head(s) = "*" THEN WithoutMarkers(Tail(s))
  ELSE <<Head(s)>> \o WithoutMarkers(Tail(s))

Returned == fnName \in ServiceFunctions /\ fnOutput # <<>>

\* C15: composeAcademicText, humanizeText and paraphraseText return the raw
\* response with the markdown markers stripped: "**bold**" comes back as "bold"
\* and "# heading" as "heading".
C15_MarkersStripped ==
  (Returned /\ fnName \in TextFunctions) =>
    /\ fnOutput[1].ok
    /\ fnOutput[1].value = WithoutMarkers(fnInput)
    /\ fnInput = <<"*","*","b","o","l","d","*","*">> => fnOutput[1].value = <<"b","o","l","d">>
    /\ fnInput = <<"#"," ","h","e","a","d","i","n","g">> => fnOutput[1].value = <<"h","e","a","d","i","n","g">>

\* the strings of the value a service function resolves with
StringsOf(name, v) ==
  CASE name = "searchLiterature" ->
         {v.text} \cup {v.papers[i].title : i \in 1..Len(v.papers)}
    [] name = "captureArticleDetails" ->
         {v.methodology, v.limitations, v.citation}
           \cup {v.findings[i] : i \in 1..Len(v.findings)}
    [] name \in TextFunctions -> {v}
    [] name = "analyzeData" ->
         {v.summary} \cup {v.insights[i] : i \in 1..Len(v.insights)}
           \cup {v.recommendations[i] : i \in 1..Len(v.recommendations)}
    [] name \in {"getSuggestions", "findCitations"} ->
         {v[i] : i \in 1..Len(v)}

\* C16: no string a service function hands to the component holds "#" or "*".
C16_NoMarkersStored ==
  (Returned /\ fnOutput[1].ok) =>
    \A str \in StringsOf(fnName, fnOutput[1].value) :
      \A k \in 1..Len(str) : str[k] # "#" /\ str[k] # "*"

\* the response text is not valid JSON
MalformedJson ==
  /\ fnName \in JsonFunctions
  /\ IF fnName = "captureArticleDetails" THEN fnInput.response.shape = "badJson"
     ELSE fnInput.shape = "badJson"

\* C17: captureArticleDetails, analyzeData and getSuggestions answer a response
\* that is not valid JSON with a fallback value, never with a rejection.
C17_ParseFailureFallsBack ==
  (Returned /\ MalformedJson) => fnOutput[1].ok

(***************************************************************************)
(* Composition and DataAnalysis                                            *)
(***************************************************************************)
\* a tool call of Composition fails
CompositionCallFails ==
  \E c \in compPending :
    ComposeFail(c) \/ ToolFail(c) \/ CitationFail(c) \/ SuggestionsFail(c)

\* the call of handleAnalyze fails
AnalysisCallFails == \E c \in daPending : AnalyzeFail(c)

\* C18: after a failed tool call in Composition or DataAnalysis loading is
\* false again, and the section texts and the analysis result are as before.
C18_FailureClearsLoading ==
  [][/\ CompositionCallFails => ~compLoading' /\ sections' = sections
     /\ AnalysisCallFails => ~daLoading' /\ daResult' = daResult]_vars

\* C19: in Composition no call is started while loading is true, at most one
\* call is outstanding, and loading is true exactly while one is.
C19_OneCallWhileLoading ==
  [][CompositionMounted =>
       /\ compPending' \ compPending # {} => ~compLoading
       /\ Cardinality(compPending') <= 1
       /\ compLoading' <=> compPending' # {}]_vars

(***************************************************************************)
(* The review session after a reset                                        *)
(***************************************************************************)
\* C20: after Start New Project the query, the papers and the four metrics
\* have their initial values.
C20_ResetDiscardsSession ==
  lastEvent = "startNewProject" =>
    /\ query = ""
    /\ results = <<>>
    /\ metrics = [identified |-> 0, screened |-> 0, excluded |-> 0, included |-> 0]

(***************************************************************************)
(* The review session: papers, availability of actions, flags              *)
(***************************************************************************)
\* res' is res with at most the capturedData of its papers changed
SameUpToCapturedData(res, resAfter) ==
  /\ Len(resAfter.papers) = Len(res.papers)
  /\ resAfter.summary = res.summary
  /\ \A i \in 1..Len(res.papers) :
       [resAfter.papers[i] EXCEPT !.capturedData = <<>>]
         = [res.papers[i] EXCEPT !.capturedData = <<>>]

\* C22: a deep capture that resolves acts on the paper list of its own session:
\* while results is null only a successful search makes it non-null, and a
\* capture that resolves changes the current list in capturedData only.
C22_CaptureStaysInSession ==
  [][/\ (results = <<>> /\ lastEvent' # "searchOk") => results' = <<>>
     /\ (lastEvent' = "captureOk" /\ results # <<>>) =>
          /\ results' # <<>>
          /\ SameUpToCapturedData(results[1], results'[1])]_vars

\* C23: with stage < 6 and no call outstanding, the search form or an enabled
\* button of the action bar is there to advance the stage.
C23_NoStuckState ==
  (stage < 6 /\ pending = {}) =>
    \/ SearchFormShown
    \/ ActionBarShown /\ ~loading

\* C26: from stage 3 on the search results are present.
C26_ResultsFromStage3 == stage >= 3 => results # <<>>

C26_Witness ==
  /\ lastEvent = "captureOk"
  /\ stage = 4
  /\ results # <<>>
  /\ results[1].papers[1].capturedData # <<>>

\* C27: a successful search returning n papers, 0 <= n <= 50, sets identified =
\* screened = n, excluded = floor(n/5) and included = floor(4n/5); excluded +
\* included <= screened, with equality exactly for the multiples of 5; no other
\* step changes metrics.
C27_MetricsOfSearch ==
  [][/\ \A n \in 0..SliceCap :
          /\ Floor5(n, 1) + Floor5(n, 4) <= n
          /\ (Floor5(n, 1) + Floor5(n, 4) = n) <=> (n % 5 = 0)
     /\ IF lastEvent' = "searchOk"
        THEN /\ results' # <<>>
             /\ LET n == Len(results'[1].papers)
                IN /\ n \in 0..SliceCap
                   /\ metrics' = [ identified |-> n, screened |-> n,
                                   excluded |-> n \div 5, included |-> (4 * n) \div 5 ]
                   /\ metrics'.excluded + metrics'.included <= metrics'.screened
                   /\ (metrics'.excluded + metrics'.included = metrics'.screened)
                        <=> (n % 5 = 0)
        ELSE metrics' = metrics]_vars

C27_Witness ==
  /\ lastEvent = "searchOk"
  /\ results # <<>> /\ Len(results[1].papers) = 2
  /\ metrics = [ identified |-> 2, screened |-> 2, excluded |-> 0, included |-> 1 ]

\* C28: a deep capture changes only capturing, selectedCapture and the
\* capturedData of the paper with the captured id; a failed capture changes
\* only capturing, which returns to null.
C28_CaptureFrame ==
  [][/\ lastEvent' = "handleDeepCapture" =>
          /\ capturing' # <<>>
          /\ UNCHANGED << results, selectedCapture, stage, loading, finalSynthesis,
                          reportDraft, metrics >>
     /\ lastEvent' = "captureOk" =>
          /\ capturing' = <<>>
          /\ UNCHANGED << stage, loading, finalSynthesis, reportDraft, metrics >>
          /\ results = <<>> => results' = <<>>
          /\ results # <<>> =>
               /\ results' # <<>>
               /\ SameUpToCapturedData(results[1], results'[1])
               /\ \A i \in 1..Len(results[1].papers) :
                    results[1].papers[i].id # selectedCapture'[1].paper.id
                      => results'[1].papers[i] = results[1].papers[i]
     /\ lastEvent' = "captureFail" =>
          /\ capturing' = <<>>
          /\ UNCHANGED << results, selectedCapture, stage, loading, finalSynthesis,
                          reportDraft, metrics >>]_vars

StageCallKinds == {"search", "synthesize", "write"}

\* loading and capturing mirror the outstanding calls
FlagsTrackCalls ==
  /\ loading <=> (\E c \in pending : c.kind \in StageCallKinds)
  /\ (capturing # <<>>) <=> (\E c \in pending : c.kind = "capture")

\* C29: loading is true exactly while a search, synthesis or draft call is
\* outstanding and capturing is non-null exactly while a capture call is
\* outstanding; a completing call, successful or failed, puts its flag back.
C29_FlagsTrackCalls ==
  [][/\ FlagsTrackCalls /\ FlagsTrackCalls'
     /\ lastEvent' \in {"searchOk", "searchFail", "synthesizeOk", "synthesizeFail",
                        "writeOk", "writeFail"} => loading /\ ~loading'
     /\ lastEvent' \in {"captureOk", "captureFail"} =>
          capturing # <<>> /\ capturing' = <<>>]_vars

C29_Witness ==
  /\ lastEvent = "captureFail"
  /\ loading
  /\ capturing = <<>>
  /\ \E c \in pending : c.kind = "synthesize"

(***************************************************************************)
(* Composition: edits made while a compose call is outstanding             *)
(***************************************************************************)
\* C25: when a compose call resolves, the section holds the content it had at
\* resolution time followed by the response, so text inserted while the call
\* was outstanding is kept.
C25_ComposeKeepsEdits ==
  [][\A c \in compPending, t \in ComposeTexts :
       ComposeOk(c, t) =>
         sections'[c.section]
           = Composed(mounted, sections[c.section], composeAcademicText(t))]_vars

(***************************************************************************)
(* AppContent: the stored view, view switches, the shared context          *)
(***************************************************************************)
\* C21: the one persisted key holds the current view after every change of the
\* view (Sidebar, either transfer), and at start-up the view is the stored value
\* when there is one and LITERATURE_REVIEW otherwise.
C21_ViewPersisted ==
  [][/\ \A saved \in SavedValues :
          initialView(saved) = IF saved # <<>> THEN saved[1] ELSE "LITERATURE_REVIEW"
     /\ stored = << view >> /\ stored' = << view' >>
     /\ Reload => view' = stored[1]]_vars

C21_Witness ==
  /\ view = "COMPOSITION"
  /\ stored = << "COMPOSITION" >>
  /\ sharedContext # <<>>
  /\ sharedContext[1].analysisResult # <<>>

\* C24: a step that changes the active view leaves the review session as it
\* was: stage, results, finalSynthesis and reportDraft are unchanged, so they
\* are still there when the view comes back to the literature review.
C24_SwitchKeepsSession ==
  [][view' # view => UNCHANGED << stage, results, finalSynthesis, reportDraft >>]_vars

\* the contexts handleTransferClick can pass and the results handleTransfer can pass
LRContexts ==
  [ topic      : Queries,
    reviewType : ReviewTypes,
    synthesis  : {<<>>} \cup { composeAcademicText(t) : t \in SynthesisTexts },
    draft      : {<<>>} \cup { composeAcademicText(t) : t \in DraftTexts },
    references : UserReferences ]

AnalysisResults ==
  { analyzeData(r).value : r \in { x \in AnalysisResponses : analyzeData(x).ok } }

\* C30: a transfer from the data analysis keeps topic, reviewType, synthesis,
\* draft and references of an earlier review transfer, a transfer from the
\* review keeps the analysisResult of an earlier analysis transfer, each
\* transfer shows COMPOSITION, and with a non-empty review topic the two
\* orders of transfer give the same context.
C30_ContextAccumulates ==
  [][/\ \A context \in LRContexts, result \in AnalysisResults :
          context.topic # "" =>
            handleTransferAnalysis(handleTransferLR(<<>>, context), result)
              = handleTransferLR(handleTransferAnalysis(<<>>, result), context)
     /\ HandleTransfer =>
          /\ view' = "COMPOSITION"
          /\ sharedContext'[1].analysisResult = daResult
          /\ sharedContext # <<>> =>
               [sharedContext'[1] EXCEPT !.analysisResult = <<>>]
                 = [sharedContext[1] EXCEPT !.analysisResult = <<>>]
     /\ (\E rt \in ReviewTypes, refs \in UserReferences : HandleTransferClick(rt, refs)) =>
          /\ view' = "COMPOSITION"
          /\ sharedContext'[1].topic = query
          /\ sharedContext'[1].synthesis = finalSynthesis
          /\ sharedContext'[1].draft = reportDraft
          /\ sharedContext'[1].analysisResult
               = (IF sharedContext # <<>> THEN sharedContext[1].analysisResult ELSE <<>>)]_vars

\* a context holding a review transfer and an analysis transfer
C30_Witness ==
  /\ view = "COMPOSITION"
  /\ sharedContext # <<>>
  /\ sharedContext[1].topic = "q"
  /\ sharedContext[1].synthesis # <<>>
  /\ sharedContext[1].analysisResult # <<>>
  /\ sections["lr"] # <<>>

====
